---------------------------- MODULE Spec2Model ----------------------------
(***************************************************************************)
(* A model of dvd/video_utils.py: the video loader (load_video), the       *)
(* subtitle fetcher (download_srt_subtitle), its WebVTT converter          *)
(* (_convert_vtt_to_srt) and the frame decoder (decode_video_to_frames).   *)
(* The operations share nothing but the file system, so each has a         *)
(* specification of its own (SpecLoad, SpecSrt, SpecVtt, SpecDecode) in    *)
(* which the variables of the others stay as Init left them.               *)
(***************************************************************************)
EXTENDS Integers, Sequences, FiniteSets, TLC

VARIABLES
    raw,        \* load_video: the raw storage directory, file name -> content (0: absent)
    ld,         \* load_video: the last call (arguments, directory before, outcome)
    loads,      \* load_video: the number of calls made
    srt_pc,         \* download_srt_subtitle: idle, primary, fallback, returned, raised
    call,           \* its arguments and environment (URL, output_path, YOUTUBE_COOKIES)
    attempt,        \* the loop variable of the running retry loop
    last,           \* the attempt just made: phase, index, client identity, what happened
    primary_tried,  \* attempts of the first loop made in this call
    fallback_tried, \* attempts of the second loop made in this call
    slept,          \* seconds the attempt just made spent in time.sleep
    out_dir,        \* the output directory, file name -> file
    raised,         \* the exception the call ended with ("none": none)
    dec_pc,         \* decode_video_to_frames: idle, loop, returned, raised
    video,          \* its input: the file at video_path and config.VIDEO_FPS
    cap,            \* the capture: none, open, unopened, released
    frame_interval,
    frame_count,
    saved_count,
    frames_dir,     \* the numbers n of the files frame_n<n>.jpg in the frames directory
    written,        \* the numbers of the files this call wrote
    decodes,        \* the number of calls made
    dec_raised,     \* the exception the call ended with ("none": none)
    vtt_content,    \* _convert_vtt_to_srt: the lines of its argument
    srt_lines,      \* the lines it built (the result is their join)
    converted       \* whether a conversion has been made

ldvars == <<raw, ld, loads>>

decvars == <<dec_pc, video, cap, frame_interval, frame_count, saved_count,
             frames_dir, written, decodes, dec_raised>>

vttvars == <<vtt_content, srt_lines, converted>>

srtvars == <<srt_pc, call, attempt, last, primary_tried, fallback_tried, slept,
             out_dir, raised>>

\* the number of load_video calls a behaviour makes
MaxLoads == 2

(***************************************************************************)
(* Strings.                                                                *)
(***************************************************************************)

\* str.endswith(suffix)
EndsWith(s, suffix) ==
    /\ Len(s) >= Len(suffix)
    /\ SubSeq(s, Len(s) - Len(suffix) + 1, Len(s)) = suffix

\* str.lower() on one character (the upper-case letters the sample hosts use)
LowerChar(c) ==
    CASE c = "Y" -> "y"
      [] c = "T" -> "t"
      [] c = "B" -> "b"
      [] c = "E" -> "e"
      [] OTHER -> c

\* str.lower()
RECURSIVE Lower(_)
Lower(s) ==
    IF Len(s) = 0 THEN s
    ELSE LowerChar(SubSeq(s, 1, 1)) \o Lower(SubSeq(s, 2, Len(s)))

\* _is_youtube_url with the suffix test anchored nowhere, as the code has it
is_youtube_url(url) ==
    \/ EndsWith(Lower(url.netloc), "youtube.com")
    \/ EndsWith(Lower(url.netloc), "youtu.be")

(***************************************************************************)
(* The inputs of load_video.  A source is a URL (scheme, netloc) or a path *)
(* (directory, stem, extension).  The files outside the storage directory  *)
(* are fixed; the storage directory is the state.                          *)
(***************************************************************************)

Netlocs == {"www.youtube.com", "youtu.be", "YouTube.com", "m.youtu.BE",
            "notyoutube.com", "example.com"}

Url(s, n) == [kind |-> "url", scheme |-> s, netloc |-> n]

Urls == {Url("https", n) : n \in Netlocs}
        \cup {Url("http", "www.youtube.com"), Url("ftp", "www.youtube.com")}

Path(d, s, e) == [kind |-> "path", dir |-> d, stem |-> s, ext |-> e]

VideoSources ==
    Urls \cup {Path("home", "a", "mp4"), Path("home", "b", "mkv"),
               Path("home", "missing", "mp4"), Path("raw", "a", "mp4")}

NoSubtitle == [kind |-> "none"]

SubtitleSources ==
    {NoSubtitle, Path("home", "a", "srt"), Path("home", "missing", "srt"),
     Path("home", "b", "txt"), Path("raw", "a", "srt")}

\* the identifier yt-dlp reports for the downloaded video (info["id"])
YoutubeId == "vid1"

RawNames == [stem : {"a", "b", YoutubeId}, ext : {"mp4", "srt", "en.srt", "mp4.srt"}]

Name(s, e) == [stem |-> s, ext |-> e]

\* the content of the files outside the storage directory (0: no such file)
HomeContent(p) ==
    CASE p = Path("home", "a", "mp4") -> 1
      [] p = Path("home", "a", "srt") -> 2
      [] p = Path("home", "b", "mkv") -> 3
      [] p = Path("home", "b", "txt") -> 4
      [] OTHER -> 0

\* what a download writes
DownloadedVideo == 5
DownloadedSubtitle == 6

Content(fs, p) ==
    IF p.dir = "raw" THEN fs[Name(p.stem, p.ext)] ELSE HomeContent(p)

\* os.path.isfile
isfile(fs, p) == p.kind = "path" /\ Content(fs, p) # 0

\* video_source.startswith(('http://', 'https://'))
starts_with_http(src) == src.kind = "url" /\ src.scheme \in {"http", "https"}

(***************************************************************************)
(* shutil.copy2 into the storage directory: [fs, err].  Copying a file     *)
(* onto itself raises SameFileError, a missing source FileNotFoundError.   *)
(***************************************************************************)
copy2(fs, src, dst) ==
    IF src.kind = "path" /\ src.dir = "raw" /\ Name(src.stem, src.ext) = dst
    THEN [fs |-> fs, err |-> IF fs[dst] # 0 THEN "SameFileError" ELSE "FileNotFoundError"]
    ELSE IF Content(fs, src) = 0
    THEN [fs |-> fs, err |-> "FileNotFoundError"]
    ELSE [fs |-> [fs EXCEPT ![dst] = Content(fs, src)], err |-> "none"]

\* shutil.move inside the storage directory (a rename; onto itself it does nothing)
move(fs, src, dst) ==
    IF src = dst THEN fs
    ELSE [fs EXCEPT ![dst] = fs[src], ![src] = 0]

\* video_destination = raw/<video_id>.mp4, video_id the stem of the source's name
video_destination(src) == Name(src.stem, "mp4")

\* a slip: the suffix appended to the whole name, f"{video_destination}.srt"
subtitle_destination_unsplit(vdst) == Name(vdst.stem, vdst.ext \o ".srt")

\* subtitle_destination = splitext(video_destination)[0] + ".srt"
subtitle_destination(vdst) == Name(vdst.stem, "srt")

\* with_subtitle and subtitle_source (None and "" are falsy)
wants_local_subtitle(with_subtitle, sub) == with_subtitle /\ sub.kind # "none"

(***************************************************************************)
(* load_video, local branch (lines 76-87): [fs, result, ret].              *)
(***************************************************************************)
load_local(fs, src, with_subtitle, sub) ==
    LET vdst == video_destination(src)
        c1 == copy2(fs, src, vdst)
    IN  IF c1.err # "none"
        THEN [fs |-> c1.fs, result |-> c1.err, ret |-> vdst]
        ELSE IF wants_local_subtitle(with_subtitle, sub)
        THEN LET c2 == copy2(c1.fs, sub, subtitle_destination(vdst))
             IN  [fs |-> c2.fs,
                  result |-> IF c2.err = "none" THEN "ok" ELSE c2.err,
                  ret |-> vdst]
        ELSE [fs |-> c1.fs, result |-> "ok", ret |-> vdst]

(***************************************************************************)
(* load_video, YouTube branch (lines 28-73).  The download either raises   *)
(* or writes <id>.mp4 and, when subtitles were asked for and the video has *)
(* them, <id>.en.srt; the first listed file that starts with the id and    *)
(* ends in .srt is then renamed <id>.srt (os.listdir's order is arbitrary).*)
(***************************************************************************)
\* f.startswith(info["id"]) and f.endswith(".srt"), over os.listdir(raw_video_dir)
srt_candidates(fs) ==
    {n \in RawNames : n.stem = YoutubeId /\ EndsWith(n.ext, "srt") /\ fs[n] # 0}

load_youtube_results(fs, with_subtitle) ==
    {[fs |-> fs, result |-> "DownloadError", ret |-> Name(YoutubeId, "mp4")]}
    \cup
    { [fs |-> g, result |-> "ok", ret |-> Name(YoutubeId, "mp4")] :
        g \in
          LET v == [fs EXCEPT ![Name(YoutubeId, "mp4")] = DownloadedVideo]
              w == [v EXCEPT ![Name(YoutubeId, "en.srt")] = DownloadedSubtitle]
              renamed(h) ==
                  IF srt_candidates(h) = {} THEN {h}
                  ELSE {move(h, f, Name(YoutubeId, "srt")) : f \in srt_candidates(h)}
          IN  IF with_subtitle THEN renamed(v) \cup renamed(w) ELSE {v} }

(***************************************************************************)
(* load_video (lines 13-89): the outcomes of one call.                     *)
(***************************************************************************)
load_video_results(fs, src, with_subtitle, sub) ==
    IF starts_with_http(src)
    THEN IF ~is_youtube_url(src)
         THEN {[fs |-> fs, result |-> "ValueError", ret |-> Name("a", "mp4")]}
         ELSE load_youtube_results(fs, with_subtitle)
    ELSE IF isfile(fs, src)
    THEN {load_local(fs, src, with_subtitle, sub)}
    ELSE {[fs |-> fs, result |-> "ValueError", ret |-> Name("a", "mp4")]}

NoCall == [src |-> NoSubtitle, with_subtitle |-> FALSE, sub |-> NoSubtitle,
           pre |-> [n \in RawNames |-> 0], result |-> "none", ret |-> Name("a", "mp4")]

InitLoad ==
    /\ raw = [n \in RawNames |-> 0]
    /\ ld = NoCall
    /\ loads = 0

load_video ==
    /\ loads < MaxLoads
    /\ loads' = loads + 1
    /\ \E src \in VideoSources, with_subtitle \in BOOLEAN, sub \in SubtitleSources :
        \E r \in load_video_results(raw, src, with_subtitle, sub) :
          /\ raw' = r.fs
          /\ ld' = [src |-> src, with_subtitle |-> with_subtitle, sub |-> sub,
                    pre |-> raw, result |-> r.result, ret |-> r.ret]
    /\ UNCHANGED <<srtvars, decvars, vttvars>>

NextLoad == load_video

(***************************************************************************)
(* _convert_vtt_to_srt (lines 365-419).  A text is the sequence of its     *)
(* lines, lines = vtt_content.strip().split('\n'): the first line of a     *)
(* text does not begin with white space, the last does not end with it,    *)
(* and the empty text is the one line "".                                  *)
(***************************************************************************)

\* the number of lines after the header in a sample text
MaxBody == 5

\* str.startswith(prefix)
StartsWith(s, prefix) ==
    /\ Len(s) >= Len(prefix)
    /\ SubSeq(s, 1, Len(prefix)) = prefix

\* str.strip(), white space being the space
RECURSIVE Strip(_)
Strip(s) ==
    IF Len(s) = 0 THEN s
    ELSE IF SubSeq(s, 1, 1) = " " THEN Strip(SubSeq(s, 2, Len(s)))
    ELSE IF SubSeq(s, Len(s), Len(s)) = " " THEN Strip(SubSeq(s, 1, Len(s) - 1))
    ELSE s

\* sub in s
Contains(s, sub) ==
    \E i \in 1..(Len(s) - Len(sub) + 1) : SubSeq(s, i, i + Len(sub) - 1) = sub

\* str.replace(old, new), old and new one character each
RECURSIVE Replace(_, _, _)
Replace(s, old, new) ==
    IF Len(s) = 0 THEN s
    ELSE (IF SubSeq(s, 1, 1) = old THEN new ELSE SubSeq(s, 1, 1))
         \o Replace(SubSeq(s, 2, Len(s)), old, new)

\* '\n'.join(seq)
RECURSIVE Join(_)
Join(seq) ==
    IF seq = <<>> THEN ""
    ELSE IF Len(seq) = 1 THEN seq[1]
    ELSE seq[1] \o "\n" \o Join(Tail(seq))

\* the lines of the samples: the header, a header metadata line, the empty
\* line, a line of one space, two timestamp lines, a line of plain text and a
\* line of text that begins with a voice tag
Timestamps == {"00:01.000 --> 00:02.500", "00:03.000 --> 00:04.000"}

BodyLines == Timestamps \cup {"", " ", "Hi", "<v Bob>Hi"}

Headers == {<<"WEBVTT", "">>, <<"WEBVTT", "Kind: captions", "">>, <<"WEBVTT">>, <<>>}

RECURSIVE SeqsUpTo(_, _)
SeqsUpTo(S, n) ==
    IF n = 0 THEN {<<>>}
    ELSE LET T == SeqsUpTo(S, n - 1)
         IN  T \cup {Append(t, x) : t \in T, x \in S}

\* the texts: what strip() leaves has a last line that is not blank
VttTexts ==
    {t \in {h \o b : h \in Headers, b \in SeqsUpTo(BodyLines, MaxBody)} :
        /\ t # <<>>
        /\ Strip(t[1]) = t[1] /\ t[1] # ""
        /\ Strip(t[Len(t)]) = t[Len(t)] /\ t[Len(t)] # ""}
    \cup {<<"">>}

\* lines 378-379, 402: the first index from i on whose line is blank, or the
\* index after the last line
RECURSIVE until_blank(_, _)
until_blank(lines, i) ==
    IF i <= Len(lines) /\ Strip(lines[i]) # "" THEN until_blank(lines, i + 1) ELSE i

\* lines 373-382: the index the parsing starts at
RECURSIVE skip_header(_, _)
skip_header(lines, i) ==
    IF i > Len(lines) THEN i
    ELSE IF StartsWith(Strip(lines[i]), "WEBVTT")
    THEN until_blank(lines, i + 1) + 1
    ELSE skip_header(lines, i + 1)

\* lines 403-406: the stripped lines i..j-1 that begin with neither < nor &
RECURSIVE subtitle_text(_, _, _)
subtitle_text(lines, i, j) ==
    IF i >= j THEN <<>>
    ELSE LET text_line == Strip(lines[i])
         IN  (IF StartsWith(text_line, "<") \/ StartsWith(text_line, "&")
              THEN <<>> ELSE <<text_line>>)
             \o subtitle_text(lines, i + 1, j)

\* if subtitle_text:
keeps_entry(text) == text # <<>>

\* lines 385-417: the entries read from index i on, appended to srt
RECURSIVE parse_entries(_, _, _, _)
parse_entries(lines, i, subtitle_index, srt) ==
    IF i > Len(lines) THEN srt
    ELSE LET line == Strip(lines[i])
         IN  IF line = "" THEN parse_entries(lines, i + 1, subtitle_index, srt)
             ELSE IF Contains(line, "-->")
             THEN LET timestamp == Replace(line, ".", ",")
                      j == until_blank(lines, i + 1)
                      text == subtitle_text(lines, i + 1, j)
                  IN  IF keeps_entry(text)
                      THEN parse_entries(lines, j, subtitle_index + 1,
                                         srt \o <<ToString(subtitle_index), timestamp,
                                                  Join(text), "">>)
                      ELSE parse_entries(lines, j, subtitle_index, srt)
             ELSE parse_entries(lines, i + 1, subtitle_index, srt)

\* _convert_vtt_to_srt: srt_lines (the function returns '\n'.join(srt_lines),
\* which is empty exactly when srt_lines is)
convert_vtt_to_srt(lines) == parse_entries(lines, skip_header(lines, 1), 1, <<>>)

InitVtt ==
    /\ vtt_content = <<"">>
    /\ srt_lines = <<>>
    /\ converted = FALSE

\* the call of _convert_vtt_to_srt
convert ==
    /\ ~converted
    /\ \E t \in VttTexts :
         /\ vtt_content' = t
         /\ srt_lines' = convert_vtt_to_srt(t)
    /\ converted' = TRUE
    /\ UNCHANGED <<ldvars, srtvars, decvars>>

NextVtt == convert

(***************************************************************************)
(* download_srt_subtitle (lines 92-362).                                   *)
(***************************************************************************)

\* max_retries
MaxRetries == 3

\* the identifier in the URL's v= parameter
VideoId == "vid"

\* the file yt-dlp writes for outtmpl %(id)s.%(ext)s, and the output files' names
DownloadName == "vid.en.srt"

SrtNames == {DownloadName, "vid.srt", "subs.srt"}

\* output_path: whether it has a directory part, and its file name
OutputPaths ==
    {[has_dir |-> TRUE, name |-> "vid.srt"], [has_dir |-> TRUE, name |-> "subs.srt"],
     [has_dir |-> FALSE, name |-> "subs.srt"]}

\* YOUTUBE_COOKIES: not set, naming a file that is missing, naming a file
CookieEnvs == {"unset", "missing", "present"}

\* the calls: a YouTube URL with a v= parameter, with every output path (and
\* every cookie setting when the path is that of <id>.srt), a URL of another
\* host, and a YouTube URL without v=
SrtCalls ==
    {c \in [netloc : {"www.youtube.com"}, has_v : {TRUE}, out : OutputPaths,
            cookies : CookieEnvs] : c.out.name = "vid.srt" \/ c.cookies = "unset"}
    \cup [netloc : {"example.com"}, has_v : {TRUE},
          out : {[has_dir |-> TRUE, name |-> "vid.srt"]}, cookies : {"unset"}]
    \cup [netloc : {"www.youtube.com"}, has_v : {FALSE},
          out : {[has_dir |-> TRUE, name |-> "vid.srt"]}, cookies : {"unset"}]

\* a file: its size (0: empty) and whether the running call wrote it
File(size) == [there |-> TRUE, size |-> size, fresh |-> TRUE]

Absent == [there |-> FALSE, size |-> 0, fresh |-> FALSE]

\* a new call begins: the files there are those of earlier calls
aged(dir) == [f \in DOMAIN dir |-> [dir[f] EXCEPT !.fresh = FALSE]]

\* cookies_file after lines 119-129: set only when the variable names a file
cookies_file(c) == c.cookies = "present"

\* a slip: one client for every attempt
player_clients_fixed(c) == <<"android", "android", "android">>

\* player_clients (lines 135-143)
player_clients(c) ==
    IF cookies_file(c) THEN <<"web", "web", "web">> ELSE <<"android", "ios", "web">>

\* player_clients[attempt % len(player_clients)]
player_client(c, a) == player_clients(c)[(a % Len(player_clients(c))) + 1]

(***************************************************************************)
(* What ydl.download can do in one attempt: return or raise (DownloadError *)
(* stands for DownloadError and ExtractorError, "other" for any other      *)
(* Exception), with a message that may hold the format words ("format",    *)
(* "not available") and the bot words ("bot", "sign in", "confirm"), and   *)
(* having written no subtitle file, an empty one or a non-empty one.       *)
(***************************************************************************)
Wrote == {"nothing", "empty", "full"}

PrimaryOutcomes ==
    [exc : {"none"}, fmt : {FALSE}, bot : {FALSE}, wrote : Wrote]
    \cup [exc : {"DownloadError"}, fmt : BOOLEAN, bot : BOOLEAN, wrote : Wrote]
    \cup [exc : {"other"}, fmt : {FALSE}, bot : BOOLEAN, wrote : Wrote]

after_download(dir, o) ==
    CASE o.wrote = "nothing" -> dir
      [] o.wrote = "empty" -> [dir EXCEPT ![DownloadName] = File(0)]
      [] o.wrote = "full" -> [dir EXCEPT ![DownloadName] = File(1)]

\* the files of os.listdir(output_dir) that start with the id, end in .srt and
\* are not empty (lines 180-184, 198-201)
found_subtitles(dir) ==
    {f \in SrtNames : /\ dir[f].there
                      /\ StartsWith(f, VideoId)
                      /\ EndsWith(f, ".srt")
                      /\ dir[f].size > 0}

\* shutil.move(downloaded_subtitle_path, output_path)
move_subtitle(dir, f, out) ==
    IF f = out THEN dir ELSE [dir EXCEPT ![out] = dir[f], ![f] = Absent]

\* where an attempt leaves the call: [pc, attempt, sleep, raised, why]
Return ==
    [pc |-> "returned", attempt |-> 0, sleep |-> 0, raised |-> "none", why |-> "return"]

Raise(e) ==
    [pc |-> "raised", attempt |-> 0, sleep |-> 0, raised |-> e, why |-> "raise"]

\* break out of the first loop: METHOD 2 starts, its loop variable at 0
Break ==
    [pc |-> "fallback", attempt |-> 0, sleep |-> 0, raised |-> "none", why |-> "break"]

\* a slip: a retry that does not advance the loop variable
Continue_same_attempt(pc, a, t, why) ==
    [pc |-> pc, attempt |-> a, sleep |-> t, raised |-> "none", why |-> why]

\* time.sleep(t); continue  -- for attempt in range(max_retries): at the end of
\* the range the first loop falls through to METHOD 2, the second to the raise
\* of line 362
Continue(pc, a, t, why) ==
    IF a + 1 < MaxRetries
    THEN [pc |-> pc, attempt |-> a + 1, sleep |-> t, raised |-> "none", why |-> why]
    ELSE IF pc = "primary"
    THEN [pc |-> "fallback", attempt |-> 0, sleep |-> t, raised |-> "none", why |-> "break"]
    ELSE [pc |-> "raised", attempt |-> 0, sleep |-> t, raised |-> "FileNotFoundError",
          why |-> "raise"]

\* a slip: a constant backoff
bot_wait_constant(a) == 3

\* wait_time = (attempt + 1) * 3
bot_wait(a) == (a + 1) * 3

\* lines 210-225: a bot-detection error
on_bot_error(a) ==
    IF a < MaxRetries - 1
    THEN Continue("primary", a, bot_wait(a), "bot_retry")
    ELSE Raise("Exception")

\* a slip: an error that is not a bot-detection error goes to the caller
on_primary_error_propagate(o, a) ==
    IF o.exc = "DownloadError" /\ o.fmt THEN Break
    ELSE IF o.exc = "DownloadError" /\ o.bot THEN on_bot_error(a)
    ELSE Raise(o.exc)

\* a slip: the bot words looked for before the format words
on_primary_error_bot_first(o, a) ==
    IF o.exc = "DownloadError" /\ o.bot THEN on_bot_error(a)
    ELSE IF o.exc = "DownloadError" /\ o.fmt THEN Break
    ELSE IF a < MaxRetries - 1 THEN Continue("primary", a, 3, "retry")
    ELSE Break

\* lines 194-241, after the look for a file found nothing: the except clauses
on_primary_error(o, a) ==
    IF o.exc = "DownloadError"
    THEN IF o.fmt THEN Break
         ELSE IF o.bot THEN on_bot_error(a)
         ELSE IF a < MaxRetries - 1 THEN Continue("primary", a, 3, "retry")
         ELSE Break
    ELSE IF a < MaxRetries - 1 THEN Continue("primary", a, 3, "retry")
         ELSE Break

(***************************************************************************)
(* METHOD 2 (lines 246-359).  extract_info raises or returns an info dict  *)
(* whose subtitles and automatic_captions map a language to its tracks: a  *)
(* dict is a sequence of <<language, tracks>> in insertion order, tracks   *)
(* being "empty" (no track), "nourl" (the first track has no url) or "url".*)
(***************************************************************************)
Infos ==
    {[subtitles |-> <<>>, automatic_captions |-> <<>>],
     [subtitles |-> << <<"en", "url">> >>, automatic_captions |-> <<>>],
     [subtitles |-> << <<"fr", "url">> >>, automatic_captions |-> << <<"en-GB", "url">> >>],
     [subtitles |-> << <<"fr", "url">>, <<"en", "nourl">> >>,
      automatic_captions |-> << <<"en-US", "url">> >>],
     [subtitles |-> << <<"de", "empty">> >>, automatic_captions |-> << <<"de", "nourl">> >>],
     [subtitles |-> << <<"en", "url">> >>, automatic_captions |-> << <<"en", "empty">> >>]}

\* the response to session.get: an error, blank text, SRT text, WebVTT text
\* with cues, WebVTT text without a cue ("none": the request is not made)
HttpOutcomes == {"error", "blank", "srt", "vtt_cues", "vtt_nocues"}


Keys(d) == {d[i][1] : i \in 1..Len(d)}

Get(d, k) == d[CHOOSE i \in 1..Len(d) : d[i][1] = k][2]

\* dict.update: a key already there keeps its place and takes the new value
RECURSIVE dict_update(_, _)
dict_update(d, e) ==
    IF e = <<>> THEN d
    ELSE LET k == e[1][1]
             d1 == IF k \in Keys(d)
                   THEN [i \in 1..Len(d) |-> IF d[i][1] = k THEN e[1] ELSE d[i]]
                   ELSE Append(d, e[1])
         IN  dict_update(d1, Tail(e))

all_subtitles(info) == dict_update(dict_update(<<>>, info.subtitles), info.automatic_captions)

preferred_langs == <<"en", "en-US", "en-GB">>

NoTrack == [lang |-> "none", url |-> FALSE]

\* lines 290-297: the first preferred language with a track, whatever its url
RECURSIVE pick_preferred(_, _)
pick_preferred(d, langs) ==
    IF langs = <<>> THEN NoTrack
    ELSE IF Head(langs) \in Keys(d) /\ Get(d, Head(langs)) # "empty"
    THEN [lang |-> Head(langs), url |-> Get(d, Head(langs)) = "url"]
    ELSE pick_preferred(d, Tail(langs))

\* lines 300-305: the first language with a track, whatever its url
RECURSIVE pick_first(_)
pick_first(d) ==
    IF d = <<>> THEN NoTrack
    ELSE IF d[1][2] # "empty" THEN [lang |-> d[1][1], url |-> d[1][2] = "url"]
    ELSE pick_first(Tail(d))

\* lines 286-305: subtitle_lang and whether subtitle_url is set
pick_subtitle(d) ==
    LET p == pick_preferred(d, preferred_langs)
    IN  IF p.url THEN p
        ELSE LET q == pick_first(d)
             IN  IF q.lang = "none" THEN p ELSE q

\* the info dict with which every response is tried; with the others the
\* response is an error or SRT text (what is done with the response does not
\* depend on the track picked)
PlainInfo == [subtitles |-> << <<"en", "url">> >>, automatic_captions |-> <<>>]

\* what the external calls of one attempt of METHOD 2 can do; the request is
\* made only once a subtitle URL has been picked
FallbackOutcomes ==
    [extract : {"error"}, info : {[subtitles |-> <<>>, automatic_captions |-> <<>>]},
     http : {"none"}]
    \cup {o \in [extract : {"ok"}, info : Infos, http : HttpOutcomes \cup {"none"}] :
            /\ (o.http = "none") <=> ~pick_subtitle(all_subtitles(o.info)).url
            /\ o.info # PlainInfo => o.http \in {"none", "error", "srt"}}

\* response.text for each response that has one, as its lines
ResponseText(h) ==
    CASE h = "blank" -> <<"">>
      [] h = "srt" -> <<"1", "00:00:01,000 --> 00:00:02,500", "Hi">>
      [] h = "vtt_cues" -> <<"WEBVTT", "", "00:01.000 --> 00:02.500", "Hi">>
      [] h = "vtt_nocues" -> <<"WEBVTT", "Kind: captions">>

\* not subtitle_content or len(subtitle_content.strip()) == 0
is_empty_content(text) == text = <<"">>

\* line 340, for a subtitle URL that does not name the format
is_vtt(text) == StartsWith(text[1], "WEBVTT")

\* lines 340-342: the lines of what is written at output_path
subtitle_content(text) ==
    IF is_vtt(text) THEN convert_vtt_to_srt(text) ELSE text

\* lines 269-350: what one attempt of METHOD 2 does -- "fail" (an exception:
\* of extract_info, of the request or the want of one, for the want of a
\* subtitle or of its URL, for a blank text), or the size of the file it
\* writes at output_path
fallback_writes(o) ==
    IF o.extract = "error" THEN "fail"
    ELSE IF o.http \in {"none", "error"} THEN "fail"
    ELSE IF all_subtitles(o.info) = <<>> THEN "fail"
    ELSE IF ~pick_subtitle(all_subtitles(o.info)).url THEN "fail"
    ELSE IF is_empty_content(ResponseText(o.http)) THEN "fail"
    ELSE IF Join(subtitle_content(ResponseText(o.http))) = "" THEN "empty"
    ELSE "full"

\* a slip: the first failure of METHOD 2 raises at once
on_fallback_error_no_retry(a) == Raise("FileNotFoundError")

\* lines 352-359
on_fallback_error(a) ==
    IF a < MaxRetries - 1
    THEN Continue("fallback", a, 3, "retry")
    ELSE Raise("FileNotFoundError")

\* the record of an attempt: its loop (phase), index and client identity, what
\* the external calls did, whether a subtitle file was found, the info dict
\* extracted and the language picked from it, why the attempt was made (cause: what followed the attempt before,
\* with that attempt's client) and what followed it (then)
NoInfo == [subtitles |-> <<>>, automatic_captions |-> <<>>]

NoAttempt ==
    [phase |-> "none", attempt |-> 0, client |-> "none", exc |-> "none",
     fmt |-> FALSE, bot |-> FALSE, found |-> FALSE, info |-> NoInfo, lang |-> "none",
     cause |-> "first", prev_client |-> "none", then |-> "first"]

NoSrtCall ==
    [netloc |-> "example.com", has_v |-> FALSE,
     out |-> [has_dir |-> FALSE, name |-> "subs.srt"], cookies |-> "unset"]

InitSrt ==
    /\ srt_pc = "idle"
    /\ call = NoSrtCall
    /\ attempt = 0
    /\ last = NoAttempt
    /\ primary_tried = 0
    /\ fallback_tried = 0
    /\ slept = 0
    /\ out_dir = [f \in SrtNames |-> Absent]
    /\ raised = "none"

\* lines 106-116: the checks before the first attempt
precheck(c) ==
    IF ~is_youtube_url(c) THEN "ValueError"
    ELSE IF ~c.out.has_dir THEN "FileNotFoundError"
    ELSE IF ~c.has_v THEN "ValueError"
    ELSE "none"

\* the call is entered: lines 106-143
download_srt_subtitle ==
    /\ srt_pc \in {"idle", "returned", "raised"}
    /\ \E c \in SrtCalls :
         LET e == precheck(c)
         IN  /\ call' = c
             /\ raised' = e
             /\ srt_pc' = IF e = "none" THEN "primary" ELSE "raised"
    /\ attempt' = 0
    /\ last' = NoAttempt
    /\ primary_tried' = 0
    /\ fallback_tried' = 0
    /\ slept' = 0
    /\ out_dir' = aged(out_dir)
    /\ UNCHANGED <<ldvars, decvars, vttvars>>

goto(n) ==
    /\ srt_pc' = n.pc
    /\ attempt' = n.attempt
    /\ slept' = n.sleep
    /\ raised' = n.raised

\* one iteration of the first loop: lines 146-241
primary_attempt ==
    /\ srt_pc = "primary"
    /\ primary_tried' = primary_tried + 1
    /\ \E o \in PrimaryOutcomes :
         LET d == after_download(out_dir, o)
             looks == o.exc \in {"none", "DownloadError"}
             hit == looks /\ found_subtitles(d) # {}
             n == IF hit THEN Return
                  ELSE IF o.exc = "none" THEN Break
                  ELSE on_primary_error(o, attempt)
         IN  /\ last' = [phase |-> "primary", attempt |-> attempt,
                         client |-> player_client(call, attempt), exc |-> o.exc,
                         fmt |-> o.fmt, bot |-> o.bot, found |-> hit,
                         info |-> NoInfo, lang |-> "none",
                         cause |-> last.then, prev_client |-> last.client,
                         then |-> n.why]
             /\ IF hit
                THEN \E f \in found_subtitles(d) :
                       out_dir' = move_subtitle(d, f, call.out.name)
                ELSE out_dir' = d
             /\ goto(n)
    /\ UNCHANGED <<call, fallback_tried>>
    /\ UNCHANGED <<ldvars, decvars, vttvars>>

\* one iteration of the second loop: lines 246-359
fallback_attempt ==
    /\ srt_pc = "fallback"
    /\ fallback_tried' = fallback_tried + 1
    /\ \E o \in FallbackOutcomes :
         LET w == fallback_writes(o)
             n == IF w = "fail" THEN on_fallback_error(attempt) ELSE Return
         IN  /\ last' = [phase |-> "fallback", attempt |-> attempt,
                         client |-> player_client(call, attempt),
                         exc |-> IF w = "fail" THEN "other" ELSE "none",
                         fmt |-> FALSE, bot |-> FALSE, found |-> FALSE,
                         info |-> o.info,
                         lang |-> IF o.extract = "ok"
                                  THEN pick_subtitle(all_subtitles(o.info)).lang
                                  ELSE "none",
                         cause |-> last.then, prev_client |-> last.client,
                         then |-> n.why]
             /\ out_dir' = CASE w = "fail" -> out_dir
                              [] w = "full" -> [out_dir EXCEPT ![call.out.name] = File(1)]
                              [] w = "empty" -> [out_dir EXCEPT ![call.out.name] = File(0)]
             /\ goto(n)
    /\ UNCHANGED <<call, primary_tried>>
    /\ UNCHANGED <<ldvars, decvars, vttvars>>

NextSrt ==
    \/ download_srt_subtitle
    \/ primary_attempt
    \/ fallback_attempt

(***************************************************************************)
(* decode_video_to_frames (lines 422-459).  All calls are on videos with   *)
(* one identifier, so they share the frames directory.  A video is what    *)
(* the file at video_path holds: whether it exists, whether OpenCV opens   *)
(* it, the frame rate it reports and the frames it decodes; target is      *)
(* config.VIDEO_FPS.  A capture that did not open reports a rate of 0 and  *)
(* reads no frame.                                                         *)
(***************************************************************************)

\* the number of decode_video_to_frames calls a behaviour makes
MaxDecodes == 2

\* the largest frame rate, target rate and number of frames of a video
MaxFps == 6
MaxTarget == 3
MaxFrames == 5

Videos ==
    [exists : {TRUE}, opens : {TRUE}, fps : 0..MaxFps, target : 1..MaxTarget,
     frames : 0..MaxFrames]
    \cup [exists : BOOLEAN, opens : {FALSE}, fps : {0}, target : 1..MaxTarget,
          frames : {0}]

\* a slip: the ratio rounded to the nearest integer instead of truncated
interval_rounded(fps, target) == (2 * fps + target) \div (2 * target)

\* frame_interval = int(fps / config.VIDEO_FPS)
interval(fps, target) == fps \div target

\* a slip: the frames numbered by their rank among the saved ones
frame_number_rank(saved, ival) == saved

\* frame_n{saved_count * frame_interval}.jpg
frame_number(saved, ival) == saved * ival

InitDecode ==
    /\ dec_pc = "idle"
    /\ video = [exists |-> FALSE, opens |-> FALSE, fps |-> 0, target |-> 1, frames |-> 0]
    /\ cap = "none"
    /\ frame_interval = 0
    /\ frame_count = 0
    /\ saved_count = 0
    /\ frames_dir = {}
    /\ written = {}
    /\ decodes = 0
    /\ dec_raised = "none"

\* the call is entered: lines 431-440
decode_video_to_frames ==
    /\ dec_pc \in {"idle", "returned", "raised"}
    /\ decodes < MaxDecodes
    /\ decodes' = decodes + 1
    /\ \E v \in Videos :
         /\ video' = v
         /\ cap' = IF v.opens THEN "open" ELSE "unopened"
         /\ frame_interval' = interval(v.fps, v.target)
    /\ frames_dir' = frames_dir    \* os.makedirs(exist_ok=True): what is there stays
    /\ frame_count' = 0
    /\ saved_count' = 0
    /\ written' = {}
    /\ dec_raised' = "none"
    /\ dec_pc' = "loop"
    /\ UNCHANGED <<ldvars, srtvars, vttvars>>

\* the loop's test fails or cap.read() has no frame left: lines 443-446, 458-459
decode_return ==
    /\ dec_pc = "loop"
    /\ cap # "open" \/ frame_count >= video.frames
    /\ cap' = "released"
    /\ dec_pc' = "returned"
    /\ UNCHANGED <<video, frame_interval, frame_count, saved_count, frames_dir,
                   written, decodes, dec_raised>>
    /\ UNCHANGED <<ldvars, srtvars, vttvars>>

\* one frame is read: lines 443-456
decode_frame ==
    /\ dec_pc = "loop"
    /\ cap = "open"
    /\ frame_count < video.frames
    /\ IF frame_interval = 0
       THEN \* frame_count % 0
            /\ dec_pc' = "raised"
            /\ dec_raised' = "ZeroDivisionError"
            /\ UNCHANGED <<frame_count, saved_count, frames_dir, written>>
       ELSE /\ IF frame_count % frame_interval = 0
               THEN /\ frames_dir' = frames_dir \cup {frame_number(saved_count, frame_interval)}
                    /\ written' = written \cup {frame_number(saved_count, frame_interval)}
                    /\ saved_count' = saved_count + 1
               ELSE UNCHANGED <<frames_dir, written, saved_count>>
            /\ frame_count' = frame_count + 1
            /\ UNCHANGED <<dec_pc, dec_raised>>
    /\ UNCHANGED <<video, cap, frame_interval, decodes>>
    /\ UNCHANGED <<ldvars, srtvars, vttvars>>

NextDecode ==
    \/ decode_video_to_frames
    \/ decode_return
    \/ decode_frame

(***************************************************************************)
(* The specifications: one operation runs, the state of the others stays   *)
(* as Init left it.                                                        *)
(***************************************************************************)

vars == <<ldvars, srtvars, decvars, vttvars>>

Init == InitLoad /\ InitSrt /\ InitDecode /\ InitVtt

SpecLoad == Init /\ [][NextLoad]_vars

SpecSrt == Init /\ [][NextSrt]_vars

SpecDecode == Init /\ [][NextDecode]_vars

SpecVtt == Init /\ [][NextVtt]_vars

\* a call that has been entered runs on: the function is sequential code, and
\* each external call is taken to come back (it returns or raises)
SpecSrtFair ==
    SpecSrt /\ WF_vars(primary_attempt) /\ WF_vars(fallback_attempt)

(***************************************************************************)
(* Claims about load_video, checked under SpecLoad.                        *)
(***************************************************************************)

LoadCalled == ld.result # "none"

LocalVideoCall == LoadCalled /\ ld.src.kind = "path" /\ isfile(ld.pre, ld.src)

\* a host of YouTube: the domain itself or a subdomain of it
IsYoutubeHost(h) ==
    \/ h \in {"youtube.com", "youtu.be"}
    \/ EndsWith(h, ".youtube.com")
    \/ EndsWith(h, ".youtu.be")

\* C2 (as claimed): a local video with with_subtitle=True and a subtitle_source
\* that does not exist fails with FileNotFoundError, the storage directory
\* holding the same files as before the call.
C2_NoPartialCopy ==
    (/\ LocalVideoCall
     /\ ld.with_subtitle
     /\ ld.sub.kind = "path"
     /\ ~isfile(ld.pre, ld.sub))
    => (ld.result = "FileNotFoundError" /\ raw = ld.pre)

\* C3 (as claimed): an http(s) source whose host is not a YouTube host, or a
\* source that is neither an http(s) URL nor an existing file, fails with
\* ValueError and leaves the storage directory as it was.
C3_InputErrorWritesNothing ==
    (/\ LoadCalled
     /\ \/ starts_with_http(ld.src) /\ ~IsYoutubeHost(Lower(ld.src.netloc))
        \/ ~starts_with_http(ld.src) /\ ~isfile(ld.pre, ld.src))
    => (ld.result = "ValueError" /\ raw = ld.pre)

LocalSrtCall ==
    /\ LocalVideoCall
    /\ ld.with_subtitle
    /\ ld.sub.kind = "path"
    /\ ld.sub.ext = "srt"
    /\ isfile(ld.pre, ld.sub)

\* C6 (as claimed): an existing local video with an existing .srt subtitle_source
\* and with_subtitle=True returns with <stem>.mp4 and <stem>.srt both stored.
C6_BothStored ==
    LocalSrtCall =>
      /\ ld.result = "ok"
      /\ raw[Name(ld.src.stem, "mp4")] # 0
      /\ raw[Name(ld.src.stem, "srt")] # 0

\* the source is the very file load_video would write
IsStoredCopy(p, dst) == p.dir = "raw" /\ Name(p.stem, p.ext) = dst

\* C6 (amended): the same, provided neither source is already the stored file
\* it would be copied onto; the stored pair then carries the sources' contents
\* under the stem of the source video's name.
C6_BothStoredUnlessSameFile ==
    (/\ LocalSrtCall
     /\ ~IsStoredCopy(ld.src, Name(ld.src.stem, "mp4"))
     /\ ~IsStoredCopy(ld.sub, Name(ld.src.stem, "srt")))
    => (/\ ld.result = "ok"
        /\ ld.ret = Name(ld.src.stem, "mp4")
        /\ raw[ld.ret] = Content(ld.pre, ld.src)
        /\ raw[Name(ld.src.stem, "srt")] = Content(ld.pre, ld.sub))

C6_Witness ==
    /\ LocalSrtCall
    /\ ld.src = Path("home", "b", "mkv")
    /\ ld.sub = Path("raw", "a", "srt")
    /\ ld.result = "ok"
    /\ raw[Name("b", "srt")] = 2

\* C15 (as claimed): a call for an existing local video with with_subtitle=True
\* and a subtitle_source that is None, names no existing file or does not end
\* in .srt does not return: it ends with an error.
C15_SubtitleValidated ==
    (/\ LocalVideoCall
     /\ ld.with_subtitle
     /\ \/ ld.sub.kind = "none"
        \/ ~isfile(ld.pre, ld.sub)
        \/ ld.sub.ext # "srt")
    => ld.result # "ok"

(***************************************************************************)
(* Claims about download_srt_subtitle, checked under SpecSrt (C1 under     *)
(* SpecSrtFair).                                                           *)
(***************************************************************************)

SrtRunning == srt_pc \in {"primary", "fallback"}

SrtEnded == srt_pc \in {"returned", "raised"}

\* C1: whatever the external calls do, a call makes at most MaxRetries primary
\* attempts, then at most MaxRetries fallback attempts, and ends: it returns, or
\* raises an error.
C1_Terminates ==
    /\ [](/\ primary_tried <= 3
          /\ fallback_tried <= 3
          /\ (srt_pc = "primary" => fallback_tried = 0)
          /\ (srt_pc = "raised" <=> raised # "none"))
    /\ (SrtRunning ~> SrtEnded)

C1_Witness ==
    /\ srt_pc = "raised"
    /\ raised = "FileNotFoundError"
    /\ primary_tried = 3
    /\ fallback_tried = 3

\* the checks of lines 106-116 pass: a YouTube host, an output_path with a
\* directory part, a v= parameter in the URL
SrtValidCall ==
    /\ IsYoutubeHost(Lower(call.netloc))
    /\ call.out.has_dir
    /\ call.has_v

\* C4 (as claimed): a call with a valid YouTube URL (one that passes the checks
\* of the entry) that ends without the subtitle raises FileNotFoundError, and
\* only after the primary and the fallback attempts have all been made.
C4_NotFoundAfterAll ==
    (srt_pc = "raised" /\ SrtValidCall)
    => (/\ raised = "FileNotFoundError"
        /\ primary_tried >= 1
        /\ fallback_tried = 3)

\* C4 (amended): such a call, when it raises, raises either the remediation
\* Exception, out of a bot-detection error on the 3rd primary attempt and with
\* no fallback attempt made, or FileNotFoundError, out of the failure of the
\* 3rd fallback attempt.
C4_RemediationOrNotFound ==
    (srt_pc = "raised" /\ SrtValidCall)
    => \/ /\ raised = "Exception"
          /\ last.phase = "primary" /\ last.attempt = 2
          /\ last.exc = "DownloadError" /\ last.bot
          /\ primary_tried = 3
          /\ fallback_tried = 0
       \/ /\ raised = "FileNotFoundError"
          /\ last.phase = "fallback" /\ last.attempt = 2
          /\ primary_tried >= 1
          /\ fallback_tried = 3

C4_Witness ==
    /\ srt_pc = "raised"
    /\ SrtValidCall
    /\ raised = "Exception"
    /\ fallback_tried = 0

\* C9 (as claimed): every retry that follows a bot-detection error uses a client
\* identity other than that of the attempt that just failed, with or without
\* a cookie file.
C9_RetryChangesClient ==
    last.cause = "bot_retry" => last.client # last.prev_client

\* C9 (amended): with no cookie file in use, every retry that follows a
\* bot-detection error uses a client identity other than that of the attempt
\* that just failed; with a cookie file in use every attempt, a retry
\* included, uses the web client.
C9_RetryChangesClientWithoutCookies ==
    /\ (last.cause = "bot_retry" /\ ~cookies_file(call))
          => last.client # last.prev_client
    /\ (last.phase # "none" /\ cookies_file(call)) => last.client = "web"

C9_Witness ==
    /\ last.cause = "bot_retry"
    /\ ~cookies_file(call)
    /\ last.attempt = 2
    /\ last.client = "web"
    /\ last.prev_client = "ios"

\* a bot-detection error in the first loop: a DownloadError or ExtractorError
\* whose message holds one of the bot words
BotError == last.phase = "primary" /\ last.exc = "DownloadError" /\ last.bot

\* what follows a bot-detection error: before the last attempt a wait of
\* 3 * (attempt + 1) seconds and the next primary attempt, at the last attempt
\* the remediation error with no wait
BotBackoff ==
    IF last.attempt < 2
    THEN /\ slept = 3 * (last.attempt + 1)
         /\ srt_pc = "primary"
         /\ attempt = last.attempt + 1
    ELSE /\ slept = 0
         /\ srt_pc = "raised"
         /\ raised = "Exception"

\* C10 (as claimed): every bot-detection error of the first loop is followed
\* that way.
C10_BotBackoff == BotError => BotBackoff

\* C10 (amended): it is, unless a non-empty subtitle file of the video is in
\* the output directory after the error (the call then returns it) or the
\* message also holds one of the format words (METHOD 2 then starts at once).
C10_BotBackoffUnlessFoundOrFormat ==
    (BotError /\ ~last.found /\ ~last.fmt) => BotBackoff

C10_Witness ==
    /\ BotError /\ ~last.found /\ ~last.fmt
    /\ last.attempt = 1
    /\ slept = 6
    /\ srt_pc = "primary"

\* an attempt ended in an error that is neither a bot-detection error nor a
\* format error of yt-dlp, and no subtitle file was found after it
OtherError ==
    /\ last.phase \in {"primary", "fallback"}
    /\ last.exc # "none"
    /\ ~last.found
    /\ ~(last.exc = "DownloadError" /\ (last.bot \/ last.fmt))

\* C11 (as claimed): an error of an attempt that is not a bot-detection error
\* (nor the format error that starts METHOD 2) goes to the caller at once: the
\* call has ended by raising, and no wait was made.
C11_OtherErrorsPropagate ==
    OtherError => (srt_pc = "raised" /\ slept = 0)

\* C11 (amended): such an error never goes to the caller as it is.  Before
\* the last attempt of its loop it is followed by a wait of 3 seconds and the
\* next attempt of the same loop; at the last primary attempt by the first
\* attempt of METHOD 2, with no wait; at the last attempt of METHOD 2 by
\* FileNotFoundError, with no wait.
C11_OtherErrorsRetried ==
    OtherError =>
      IF last.attempt < 2
      THEN /\ srt_pc = last.phase
           /\ attempt = last.attempt + 1
           /\ slept = 3
           /\ raised = "none"
      ELSE IF last.phase = "primary"
      THEN /\ srt_pc = "fallback"
           /\ attempt = 0
           /\ slept = 0
           /\ raised = "none"
      ELSE /\ srt_pc = "raised"
           /\ raised = "FileNotFoundError"
           /\ slept = 0

C11_Witness ==
    /\ OtherError
    /\ last.phase = "primary"
    /\ last.exc = "other"
    /\ last.bot
    /\ last.attempt = 1
    /\ srt_pc = "primary"
    /\ attempt = 2
    /\ slept = 3

\* a format error in the first loop: a DownloadError or ExtractorError whose
\* message holds one of the format words, no subtitle file found after it
FormatError ==
    /\ last.phase = "primary"
    /\ last.exc = "DownloadError"
    /\ last.fmt
    /\ ~last.found

\* C12: a format error of any primary attempt is followed at once by METHOD 2
\* (its first attempt next, no wait made, whatever else the message holds);
\* and while METHOD 2 runs no primary attempt is made: the call stays in
\* METHOD 2 until it returns or raises.
C12_FormatErrorStartsFallback ==
    /\ [](FormatError =>
            /\ srt_pc = "fallback"
            /\ attempt = 0
            /\ slept = 0
            /\ fallback_tried = 0)
    /\ [][srt_pc = "fallback" =>
            /\ srt_pc' \in {"fallback", "returned", "raised"}
            /\ primary_tried' = primary_tried
            /\ last'.phase = "fallback"]_vars

C12_Witness ==
    /\ FormatError
    /\ last.bot
    /\ last.attempt = 1
    /\ primary_tried = 2
    /\ srt_pc = "fallback"
    /\ slept = 0

\* the English variants in the order of preference that have a track with a
\* URL in the dict d
EnglishWithUrl(d) ==
    {i \in 1..Len(preferred_langs) :
        preferred_langs[i] \in Keys(d) /\ Get(d, preferred_langs[i]) = "url"}

\* the languages of d, by their place in it, that have a track
WithTrack(d) == {i \in 1..Len(d) : d[i][2] # "empty"}

Least(S) == CHOOSE i \in S : \A j \in S : i <= j

\* C17 (as claimed): the language METHOD 2 picks from the metadata is the first
\* of en, en-US, en-GB that has a track with a URL, when there is one, and
\* otherwise the first language of the metadata that has a track.
C17_EnglishPreferred ==
    last.phase = "fallback" =>
      LET d == all_subtitles(last.info)
      IN  IF EnglishWithUrl(d) # {}
          THEN last.lang = preferred_langs[Least(EnglishWithUrl(d))]
          ELSE IF WithTrack(d) # {}
          THEN last.lang = d[Least(WithTrack(d))][1]
          ELSE last.lang = "none"

\* C18 (as claimed): when a call has returned, there is a file at output_path
\* and it is not empty.
C18_OutputNotEmpty ==
    srt_pc = "returned" =>
      (out_dir[call.out.name].there /\ out_dir[call.out.name].size > 0)

\* C19 (as claimed): when a call has returned, the file at output_path was
\* written during that call (by the download of a primary attempt, or by
\* METHOD 2), and is not a file an earlier call left.
C19_ObtainedInThisCall ==
    srt_pc = "returned" => out_dir[call.out.name].fresh

(***************************************************************************)
(* Claims about decode_video_to_frames, checked under SpecDecode.          *)
(***************************************************************************)

DecodeEnded == dec_pc \in {"returned", "raised"}

\* Python's round(a / b) for a >= 0, b > 0: to the nearest integer, a tie to
\* the even one
Round(a, b) ==
    LET q == a \div b
        r == a % b
    IN  IF 2 * r < b THEN q
        ELSE IF 2 * r > b THEN q + 1
        ELSE IF q % 2 = 0 THEN q ELSE q + 1

Max(a, b) == IF a >= b THEN a ELSE b

\* the smallest integer that is at least a / b
CeilDiv(a, b) == (a + b - 1) \div b

\* C5 (as claimed, and read for a source rate that is at least the target
\* rate): a video that opens, with frame_count decodable frames, ends with
\* floor(frame_count / interval) frames saved, interval being
\* max(1, round(source_fps / target_fps)).
C5_SavedIsFloor ==
    (DecodeEnded /\ video.opens /\ video.fps >= video.target)
    => LET i == Max(1, Round(video.fps, video.target))
       IN  /\ saved_count = video.frames \div i
           /\ Cardinality(written) = video.frames \div i

\* C5 (amended): it ends with ceil(frame_count / interval) frames saved,
\* interval being int(source_fps / target_fps), when that interval is at least
\* 1; when it is 0 no frame is saved, and a video that has a frame ends the
\* call with ZeroDivisionError.
C5_SavedIsCeilOfTruncatedRatio ==
    (DecodeEnded /\ video.opens)
    => LET i == video.fps \div video.target
       IN  IF i >= 1
           THEN /\ dec_pc = "returned"
                /\ saved_count = CeilDiv(video.frames, i)
                /\ Cardinality(written) = CeilDiv(video.frames, i)
           ELSE /\ saved_count = 0
                /\ written = {}
                /\ (video.frames > 0 <=> dec_raised = "ZeroDivisionError")

C5_Witness ==
    /\ dec_pc = "returned"
    /\ video.opens
    /\ video.fps = 5 /\ video.target = 2 /\ video.frames = 5
    /\ saved_count = 3
    /\ written = {0, 2, 4}

\* C7 (as claimed): a video path that does not exist ends the call with
\* FileNotFoundError, a file the decoding library cannot open with
\* RuntimeError; in neither case does the call return the frames directory.
C7_MissingOrUnopenedFails ==
    (DecodeEnded /\ ~video.opens)
    => /\ dec_pc = "raised"
       /\ dec_raised = IF video.exists THEN "RuntimeError" ELSE "FileNotFoundError"

\* C8 (as claimed): when a call returns, the frames directory holds exactly the
\* frames that call wrote, whatever earlier calls left there.
C8_FullyRegenerated == dec_pc = "returned" => frames_dir = written

\* C13 (as claimed, and read for a video that opens and reports a rate of at
\* least 1): once a call has computed it, the sampling interval is at least 1,
\* whatever the source rate and the target rate are, and no call ends in a
\* division by zero at the sampling test.
C13_IntervalAtLeastOne ==
    (dec_pc # "idle" /\ video.opens /\ video.fps >= 1)
    => (frame_interval >= 1 /\ dec_raised # "ZeroDivisionError")

\* C14 (as claimed): when a call has ended, by a return or by an error, its
\* capture has been released.
C14_CaptureReleased == DecodeEnded => cap = "released"

\* C20: at every save the number in the file name is the index of the frame
\* being written; it is larger than the number of every file the call wrote
\* before, so the save adds a file to those of the call and overwrites none
\* of them.  The files of the call are numbered 0, interval, 2 * interval, ...
C20_FrameNumberIsIndex ==
    /\ [](dec_pc # "idle" =>
            written = {frame_number(k, frame_interval) : k \in 0..(saved_count - 1)})
    /\ [][(dec_pc = "loop" /\ saved_count' = saved_count + 1) =>
            /\ frame_number(saved_count, frame_interval) = frame_count
            /\ \A n \in written : n < frame_count
            /\ written' = written \cup {frame_count}
            /\ Cardinality(written') = saved_count']_vars

C20_Witness ==
    /\ dec_pc = "loop"
    /\ frame_interval = 3
    /\ frame_count = 4
    /\ saved_count = 2
    /\ written = {0, 3}

(***************************************************************************)
(* Claims about _convert_vtt_to_srt, checked under SpecVtt.                *)
(***************************************************************************)

IsBlank(line) == Strip(line) = ""

IsTiming(line) == Contains(line, "-->")

\* the index of the first line after the header block of a text that begins
\* with the header: the line after the first blank line
BodyStart(lines) ==
    IF \E i \in 2..Len(lines) : IsBlank(lines[i])
    THEN 1 + CHOOSE i \in 2..Len(lines) :
                 IsBlank(lines[i]) /\ \A j \in 2..(i - 1) : ~IsBlank(lines[j])
    ELSE Len(lines) + 1

\* the timing lines of the body, each the start of a cue
Cues(lines) == {i \in BodyStart(lines)..Len(lines) : IsTiming(lines[i])}

\* a well-formed WebVTT text: the header first, every blank line empty, no
\* timing line in the header block, every cue set off by a blank line and with
\* a line of text at least, and no line of the body outside a cue
WellFormedVtt(lines) ==
    /\ lines[1] = "WEBVTT"
    /\ \A i \in 1..Len(lines) : IsBlank(lines[i]) => lines[i] = ""
    /\ \A i \in 2..(BodyStart(lines) - 1) : ~IsTiming(lines[i])
    /\ \A i \in BodyStart(lines)..Len(lines) :
          /\ IsTiming(lines[i]) =>
                /\ (i = BodyStart(lines) \/ IsBlank(lines[i - 1]))
                /\ i < Len(lines) /\ ~IsBlank(lines[i + 1]) /\ ~IsTiming(lines[i + 1])
          /\ (~IsTiming(lines[i]) /\ ~IsBlank(lines[i])) =>
                (i > BodyStart(lines) /\ ~IsBlank(lines[i - 1]))

\* the index of the k-th cue
Cue(lines, k) ==
    CHOOSE i \in Cues(lines) : Cardinality({j \in Cues(lines) : j <= i}) = k

\* C16 (as claimed): a well-formed WebVTT text with n cues is converted to n
\* blocks, the k-th numbered k and carrying the timing line of the k-th cue
\* with ',' for '.', and no line of the result is the header or a header
\* metadata line.
C16_CuesToBlocks ==
    (converted /\ WellFormedVtt(vtt_content))
    => LET n == Cardinality(Cues(vtt_content))
       IN  /\ Len(srt_lines) = 4 * n
           /\ \A k \in 1..n :
                 /\ srt_lines[4 * k - 3] = ToString(k)
                 /\ srt_lines[4 * k - 2] = Replace(Strip(vtt_content[Cue(vtt_content, k)]), ".", ",")
                 /\ ~Contains(srt_lines[4 * k - 2], ".")
                 /\ srt_lines[4 * k] = ""
           /\ \A i \in 1..Len(srt_lines) :
                 /\ ~StartsWith(srt_lines[i], "WEBVTT")
                 /\ srt_lines[i] # "Kind: captions"

=============================================================================
